---------------------------- MODULE Spec2Model ----------------------------
(***************************************************************************)
(* A model of the vu128 variable-length integer codec (src/vu128/vu128.rs). *)
(*                                                                         *)
(* Machine integers are kept at their width: a value of N bytes is a       *)
(* function from 0..N-1 to bytes, index 0 the least significant byte, so   *)
(* that shifts lose the bits the hardware loses and a u128 never has to    *)
(* fit in a model integer.  A buffer [u8; N+1] is a function from 0..N to  *)
(* bytes, index i being buf[i] of the source.                              *)
(***************************************************************************)
EXTENDS Integers, Sequences, FiniteSets, TLC

VARIABLES buf, enc, dec, pc

vars == <<buf, enc, dec, pc>>

---------------------------------------------------------------------------
(* Byte and machine-word arithmetic used by the source's expressions.      *)

Byte == 0..255

Bit(a, k) == (a \div (2^k)) % 2

\* the eight bits of a and b combined bit by bit; t gives the result bit for
\* zero, one and two set bits among the pair
Bitwise(a, b, t) ==
      t[Bit(a, 0) + Bit(b, 0) + 1]       + t[Bit(a, 1) + Bit(b, 1) + 1] * 2
    + t[Bit(a, 2) + Bit(b, 2) + 1] * 4   + t[Bit(a, 3) + Bit(b, 3) + 1] * 8
    + t[Bit(a, 4) + Bit(b, 4) + 1] * 16  + t[Bit(a, 5) + Bit(b, 5) + 1] * 32
    + t[Bit(a, 6) + Bit(b, 6) + 1] * 64  + t[Bit(a, 7) + Bit(b, 7) + 1] * 128

AndTable == [a \in Byte |-> [b \in Byte |-> Bitwise(a, b, <<0, 0, 1>>)]]
OrTable  == [a \in Byte |-> [b \in Byte |-> Bitwise(a, b, <<0, 1, 1>>)]]
XorTable == [a \in Byte |-> [b \in Byte |-> Bitwise(a, b, <<0, 1, 0>>)]]

\* `a & b`, `a | b`, `a ^ b` on u8
ByteAnd(a, b) == AndTable[a][b]
ByteOr(a, b)  == OrTable[a][b]

\* `a | b` where the code has `a ^ b`
ByteXor_or(a, b) == OrTable[a][b]

ByteXor(a, b) == XorTable[a][b]

\* `a >> k` on u8
ByteShr(a, k) == a \div (2^k)

\* size_of::<T>() of a value or buffer
Size(x) == Cardinality(DOMAIN x)

\* an integer literal of the source (below 2^31) at a width of n bytes
Lit(v, n) == [i \in 0..n-1 |-> IF i < 4 THEN (v \div (256^i)) % 256 ELSE 0]

\* uN::MAX
MaxWord(n) == [i \in 0..n-1 |-> 255]

\* `x as uN`: truncation or zero extension to n bytes
Cast(x, n) == [i \in 0..n-1 |-> IF i \in DOMAIN x THEN x[i] ELSE 0]

\* `b as uN` for a byte b
FromByte(b, n) == [i \in 0..n-1 |-> IF i = 0 THEN b ELSE 0]

\* `x as u8`
AsU8(x) == x[0]

\* `x << k`: bits shifted past the width are lost
Shl(x, k) ==
    LET q == k \div 8
        r == k % 8
    IN  [i \in DOMAIN x |->
            ((IF i >= q THEN x[i-q] * (2^r) ELSE 0) % 256)
          + (IF i >= q + 1 THEN x[i-q-1] \div (2^(8-r)) ELSE 0)]

\* `x >> k` on an unsigned value
Shr(x, k) ==
    LET n == Size(x)
        q == k \div 8
        r == k % 8
    IN  [i \in DOMAIN x |->
            (IF i + q < n THEN x[i+q] \div (2^r) ELSE 0)
          + ((IF i + q + 1 < n THEN x[i+q+1] * (2^(8-r)) ELSE 0) % 256)]

\* `x | y`, `x & y`, `x ^ y`
Or(x, y)  == [i \in DOMAIN x |-> ByteOr(x[i], y[i])]
And(x, y) == [i \in DOMAIN x |-> ByteAnd(x[i], y[i])]
Xor(x, y) == [i \in DOMAIN x |-> ByteXor(x[i], y[i])]

\* `!x`
Not(x) == [i \in DOMAIN x |-> 255 - x[i]]

\* wrapping `x + y`
Add(x, y) ==
    LET c[i \in 0..Size(x)] ==
            IF i = 0 THEN 0 ELSE (x[i-1] + y[i-1] + c[i-1]) \div 256
    IN  [i \in DOMAIN x |-> (x[i] + y[i] + c[i]) % 256]

\* wrapping `-x` on a signed value
Neg(x) == Add(Not(x), Lit(1, Size(x)))

\* whether a signed value is negative
IsNeg(x) == x[Size(x) - 1] >= 128

\* `x >> k` on a signed value: the sign bit is shifted in
Sar(x, k) == IF IsNeg(x) THEN Not(Shr(Not(x), k)) ELSE Shr(x, k)

\* a rotation by one byte (uN::rotate_left(8)) where the bytes should be reversed
swap_bytes_rotate(x) == [i \in DOMAIN x |-> x[(i + Size(x) - 1) % Size(x)]]

\* uN::swap_bytes
swap_bytes(x) == [i \in DOMAIN x |-> x[Size(x) - 1 - i]]

\* f32::to_bits, f64::to_bits: the value's IEEE-754 bit pattern, unchanged
to_bits(x) == x

\* f32::from_bits, f64::from_bits
from_bits(x) == x

\* `x < y` on unsigned values of one width
Lt(x, y) ==
    \E i \in DOMAIN x :
        /\ x[i] < y[i]
        /\ \A j \in DOMAIN x : j > i => x[j] = y[j]

\* u8::leading_zeros
Clz8(b) ==
    LET f[k \in 0..8] == IF k = 8 \/ Bit(b, 7 - k) = 1 THEN k ELSE f[k+1]
    IN  f[0]

\* uN::trailing_zeros, the count from the other end of the word
trailing_zeros(x) ==
    LET n == Size(x)
        f[i \in 0..n] ==
            IF i = n THEN 8 * n
            ELSE IF x[i] # 0
                 THEN 8 * i + (CHOOSE k \in 0..7 :
                                  Bit(x[i], k) = 1 /\ \A j \in 0..k-1 : Bit(x[i], j) = 0)
            ELSE f[i+1]
    IN  f[0]

\* uN::leading_zeros
leading_zeros(x) ==
    LET n == Size(x)
        f[i \in -1..n-1] ==
            IF i = -1 THEN 8 * n
            ELSE IF x[i] # 0 THEN 8 * (n - 1 - i) + Clz8(x[i])
            ELSE f[i-1]
    IN  f[n-1]

\* write_unaligned without to_le() on a big-endian target: most significant
\* byte first
write_unaligned_be(b, x) == [i \in DOMAIN b |-> IF i = 0 THEN b[0] ELSE x[Size(x) - i]]

\* ptr.add(1).cast::<uN>().write_unaligned(x.to_le()): the N bytes of x,
\* least significant first, land in buf[1..=N]
write_unaligned(b, x) == [i \in DOMAIN b |-> IF i = 0 THEN b[0] ELSE x[i-1]]

\* read_unaligned without from_le() on a big-endian target: buf[1] is taken
\* for the most significant byte
read_unaligned_be(b) == [i \in 0..Size(b)-2 |-> b[Size(b) - 1 - i]]

\* uN::from_le(ptr.add(1).cast::<uN>().read_unaligned())
read_unaligned(b) == [i \in 0..Size(b)-2 |-> b[i+1]]

\* the cast of &mut [u8; 17] to &mut [u8; 5]: a view of the first five bytes
Prefix5(b) == [i \in 0..4 |-> b[i]]

\* what a write through the five-byte view leaves in the whole buffer
WriteBack(b, b5) == [i \in DOMAIN b |-> IF i \in DOMAIN b5 THEN b5[i] ELSE b[i]]

---------------------------------------------------------------------------
(* The unsigned codec.                                                     *)

LEN_MASK_u64 == 7
LEN_MASK_u128 == 15

\* encoded_len taking the length nibble for the payload length less one, and
\* forgetting the prefix byte
encoded_len_nibble(b) ==
    IF b < 128 THEN 1
    ELSE IF b < 192 THEN 2
    ELSE IF b < 224 THEN 3
    ELSE IF b < 240 THEN 4
    ELSE ByteAnd(b, 15) + 1

encoded_len(b) ==
    IF b < 128 THEN 1
    ELSE IF b < 192 THEN 2
    ELSE IF b < 224 THEN 3
    ELSE IF b < 240 THEN 4
    ELSE ByteAnd(b, 15) + 2

\* the packed branch taking `x < 0x00008000` for the bound of two bytes: a
\* value of 15 bits loses its top bit to the two bytes
EncodePacked_wide2(b, x) ==
    LET n == Size(x) IN
    IF Lt(x, Lit(32768, n)) THEN
        LET x2 == Shl(x, 2) IN
        [buf |-> [b EXCEPT ![0] = ByteOr(128, ByteShr(AsU8(x2), 2)),
                           ![1] = AsU8(Shr(x2, 8))],
         len |-> 2]
    ELSE IF Lt(x, Lit(2097152, n)) THEN
        LET x3 == Shl(x, 3) IN
        [buf |-> [b EXCEPT ![0] = ByteOr(192, ByteShr(AsU8(x3), 3)),
                           ![1] = AsU8(Shr(x3, 8)),
                           ![2] = AsU8(Shr(x3, 16))],
         len |-> 3]
    ELSE
        LET x4 == Shl(x, 4) IN
        [buf |-> [b EXCEPT ![0] = ByteOr(224, ByteShr(AsU8(x4), 4)),
                           ![1] = AsU8(Shr(x4, 8)),
                           ![2] = AsU8(Shr(x4, 16)),
                           ![3] = AsU8(Shr(x4, 24))],
         len |-> 4]

\* the branch `if x < 0x10000000 { ... }` shared by encode_u32 and encode_u64
EncodePacked(b, x) ==
    LET n == Size(x) IN
    IF Lt(x, Lit(16384, n)) THEN
        LET x2 == Shl(x, 2) IN
        [buf |-> [b EXCEPT ![0] = ByteOr(128, ByteShr(AsU8(x2), 2)),
                           ![1] = AsU8(Shr(x2, 8))],
         len |-> 2]
    ELSE IF Lt(x, Lit(2097152, n)) THEN
        LET x3 == Shl(x, 3) IN
        [buf |-> [b EXCEPT ![0] = ByteOr(192, ByteShr(AsU8(x3), 3)),
                           ![1] = AsU8(Shr(x3, 8)),
                           ![2] = AsU8(Shr(x3, 16))],
         len |-> 3]
    ELSE
        LET x4 == Shl(x, 4) IN
        [buf |-> [b EXCEPT ![0] = ByteOr(224, ByteShr(AsU8(x4), 4)),
                           ![1] = AsU8(Shr(x4, 8)),
                           ![2] = AsU8(Shr(x4, 16)),
                           ![3] = AsU8(Shr(x4, 24))],
         len |-> 4]

\* encode_u32 with the payload length, not the length less one, in the prefix
encode_u32_prefix_n(b, value) ==
    LET x == value IN
    IF Lt(x, Lit(128, 4)) THEN [buf |-> [b EXCEPT ![0] = AsU8(x)], len |-> 1]
    ELSE IF Lt(x, Lit(268435456, 4)) THEN EncodePacked(b, x)
    ELSE [buf |-> [write_unaligned(b, x) EXCEPT ![0] = 244], len |-> 5]

encode_u32(b, value) ==
    LET x == value IN
    IF Lt(x, Lit(128, 4)) THEN [buf |-> [b EXCEPT ![0] = AsU8(x)], len |-> 1]
    ELSE IF Lt(x, Lit(268435456, 4)) THEN EncodePacked(b, x)
    ELSE [buf |-> [write_unaligned(b, x) EXCEPT ![0] = 243], len |-> 5]

\* encode_u64 with the prefix and length of a full payload, as encode_u32 has
encode_u64_fixed(b, value) ==
    LET x == value IN
    IF Lt(x, Lit(128, 8)) THEN [buf |-> [b EXCEPT ![0] = AsU8(x)], len |-> 1]
    ELSE IF Lt(x, Lit(268435456, 8)) THEN EncodePacked(b, x)
    ELSE [buf |-> [write_unaligned(b, x) EXCEPT ![0] = 247], len |-> 9]

encode_u64(b, value) ==
    LET x == value IN
    IF Lt(x, Lit(128, 8)) THEN [buf |-> [b EXCEPT ![0] = AsU8(x)], len |-> 1]
    ELSE IF Lt(x, Lit(268435456, 8)) THEN EncodePacked(b, x)
    ELSE
        LET len == ByteXor(leading_zeros(x) \div 8, LEN_MASK_u64) IN
        [buf |-> [write_unaligned(b, x) EXCEPT ![0] = ByteOr(240, len)],
         len |-> len + 2]

\* encode_u128 with the LEN_MASK of encode_u64
encode_u128_mask7(b, value) ==
    IF Lt(value, Lit(128, 16)) THEN [buf |-> [b EXCEPT ![0] = AsU8(value)], len |-> 1]
    ELSE IF Lt(value, Lit(268435456, 16)) THEN
        LET r == encode_u32(Prefix5(b), Cast(value, 4)) IN
        [buf |-> WriteBack(b, r.buf), len |-> r.len]
    ELSE
        LET len == ByteXor(leading_zeros(value) \div 8, LEN_MASK_u64) IN
        [buf |-> [write_unaligned(b, value) EXCEPT ![0] = ByteOr(240, len)],
         len |-> len + 2]

encode_u128(b, value) ==
    IF Lt(value, Lit(128, 16)) THEN [buf |-> [b EXCEPT ![0] = AsU8(value)], len |-> 1]
    ELSE IF Lt(value, Lit(268435456, 16)) THEN
        LET r == encode_u32(Prefix5(b), Cast(value, 4)) IN
        [buf |-> WriteBack(b, r.buf), len |-> r.len]
    ELSE
        LET len == ByteXor(leading_zeros(value) \div 8, LEN_MASK_u128) IN
        [buf |-> [write_unaligned(b, value) EXCEPT ![0] = ByteOr(240, len)],
         len |-> len + 2]

\* decode_u32 returning the length of a full payload on every binary prefix
decode_u32_len5(b) ==
    LET buf0 == FromByte(b[0], 4) IN
    IF ByteAnd(AsU8(buf0), 128) = 0 THEN [value |-> buf0, len |-> 1]
    ELSE IF ByteAnd(AsU8(buf0), 64) = 0 THEN
        LET low == ByteAnd(AsU8(buf0), 63) IN
        [value |-> Or(Shl(FromByte(b[1], 4), 6), FromByte(low, 4)), len |-> 2]
    ELSE IF AsU8(buf0) >= 240 THEN
        [value |-> Or(Or(Shl(FromByte(b[4], 4), 24), Shl(FromByte(b[3], 4), 16)),
                      Or(Shl(FromByte(b[2], 4), 8), FromByte(b[1], 4))),
         len |-> 5]
    ELSE IF ByteAnd(AsU8(buf0), 32) = 0 THEN
        LET low == ByteAnd(AsU8(buf0), 31) IN
        [value |-> Or(Or(Shl(FromByte(b[2], 4), 13), Shl(FromByte(b[1], 4), 5)),
                      FromByte(low, 4)),
         len |-> 3]
    ELSE
        [value |-> Or(Or(Shl(FromByte(b[3], 4), 20), Shl(FromByte(b[2], 4), 12)),
                      Or(Shl(FromByte(b[1], 4), 4), And(buf0, Lit(15, 4)))),
         len |-> 4]

decode_u32(b) ==
    LET buf0 == FromByte(b[0], 4) IN
    IF ByteAnd(AsU8(buf0), 128) = 0 THEN [value |-> buf0, len |-> 1]
    ELSE IF ByteAnd(AsU8(buf0), 64) = 0 THEN
        LET low == ByteAnd(AsU8(buf0), 63) IN
        [value |-> Or(Shl(FromByte(b[1], 4), 6), FromByte(low, 4)), len |-> 2]
    ELSE IF AsU8(buf0) >= 240 THEN
        LET len == ByteAnd(AsU8(buf0), 15) + 2 IN
        [value |-> Or(Or(Shl(FromByte(b[4], 4), 24), Shl(FromByte(b[3], 4), 16)),
                      Or(Shl(FromByte(b[2], 4), 8), FromByte(b[1], 4))),
         len |-> len]
    ELSE IF ByteAnd(AsU8(buf0), 32) = 0 THEN
        LET low == ByteAnd(AsU8(buf0), 31) IN
        [value |-> Or(Or(Shl(FromByte(b[2], 4), 13), Shl(FromByte(b[1], 4), 5)),
                      FromByte(low, 4)),
         len |-> 3]
    ELSE
        [value |-> Or(Or(Shl(FromByte(b[3], 4), 20), Shl(FromByte(b[2], 4), 12)),
                      Or(Shl(FromByte(b[1], 4), 4), And(buf0, Lit(15, 4)))),
         len |-> 4]

decode_u64(b) ==
    LET buf0 == FromByte(b[0], 8) IN
    IF ByteAnd(AsU8(buf0), 128) = 0 THEN [value |-> buf0, len |-> 1]
    ELSE IF AsU8(buf0) < 240 THEN
        IF ByteAnd(AsU8(buf0), 64) = 0 THEN
            LET low == ByteAnd(AsU8(buf0), 63)
                value == Or(Shl(FromByte(b[1], 4), 6), FromByte(low, 4))
            IN  [value |-> Cast(value, 8), len |-> 2]
        ELSE IF ByteAnd(AsU8(buf0), 32) = 0 THEN
            LET low == ByteAnd(AsU8(buf0), 31)
                value == Or(Or(Shl(FromByte(b[2], 4), 13), Shl(FromByte(b[1], 4), 5)),
                            FromByte(low, 4))
            IN  [value |-> Cast(value, 8), len |-> 3]
        ELSE
            LET value == Or(Or(Shl(FromByte(b[3], 4), 20), Shl(FromByte(b[2], 4), 12)),
                            Or(Shl(FromByte(b[1], 4), 4),
                               And(Cast(buf0, 4), Lit(15, 4))))
            IN  [value |-> Cast(value, 8), len |-> 4]
    ELSE
        LET value == read_unaligned(b)
            len == ByteAnd(b[0], 15)
            mask == Shr(MaxWord(8),
                        ByteXor(ByteAnd(len, LEN_MASK_u64), LEN_MASK_u64) * 8)
        IN  [value |-> And(value, mask), len |-> len + 2]

decode_u128(b) ==
    IF ByteAnd(b[0], 128) = 0 THEN [value |-> FromByte(b[0], 16), len |-> 1]
    ELSE IF b[0] < 240 THEN
        LET r == decode_u32(Prefix5(b)) IN
        [value |-> Cast(r.value, 16), len |-> r.len]
    ELSE
        LET value == read_unaligned(b)
            len == ByteAnd(b[0], 15)
            mask == Shr(MaxWord(16),
                        ByteXor(ByteAnd(len, LEN_MASK_u128), LEN_MASK_u128) * 8)
        IN  [value |-> And(value, mask), len |-> len + 2]

---------------------------------------------------------------------------
(* The signed adapters (macros encode_iNN, decode_iNN) and the float ones. *)

\* a shift one bit short of the sign bit
ZIGZAG_SHIFT_short(n) == 8 * n - 2

\* ZIGZAG_SHIFT = $ut::BITS - 1
ZIGZAG_SHIFT(n) == 8 * n - 1

\* ((value >> ZIGZAG_SHIFT) as $ut) ^ ((value << 1) as $ut)
zigzag(value) == Xor(Sar(value, ZIGZAG_SHIFT(Size(value))), Shl(value, 1))

\* the cast to the signed type made before the shift: ((zz as $it) >> 1)
unzigzag_sar(zz) == Xor(Sar(zz, 1), Neg(And(zz, Lit(1, Size(zz)))))

\* ((zz >> 1) as $it) ^ (-((zz & 1) as $it))
unzigzag(zz) == Xor(Shr(zz, 1), Neg(And(zz, Lit(1, Size(zz)))))

\* the instances of macro encode_iNN: $encode_fn(buf, zigzag)
encode_i32(b, value)  == encode_u32(b, zigzag(value))
encode_i64(b, value)  == encode_u64(b, zigzag(value))
encode_i128(b, value) == encode_u128(b, zigzag(value))

\* the instances of macro decode_iNN: let (zz, len) = $decode_fn(buf)
decode_i32(b) ==
    LET r == decode_u32(b) IN [value |-> unzigzag(r.value), len |-> r.len]

decode_i64(b) ==
    LET r == decode_u64(b) IN [value |-> unzigzag(r.value), len |-> r.len]

decode_i128(b) ==
    LET r == decode_u128(b) IN [value |-> unzigzag(r.value), len |-> r.len]

encode_f32(b, value) == encode_u32(b, swap_bytes(to_bits(value)))
encode_f64(b, value) == encode_u64(b, swap_bytes(to_bits(value)))

decode_f32(b) ==
    LET r == decode_u32(b) IN [value |-> from_bits(swap_bytes(r.value)), len |-> r.len]

decode_f64(b) ==
    LET r == decode_u64(b) IN [value |-> from_bits(swap_bytes(r.value)), len |-> r.len]

---------------------------------------------------------------------------
(* The wire format as the module documentation states it ("Encoding        *)
(* details", "Handling of over-long encodings"): the bytes of a value in a *)
(* layout wide enough for it, whether or not a shorter layout exists.      *)

\* the unary length prefix of a packed layout of k bytes: k-1 one bits, then a zero
UnaryPrefix(k) == 256 - 2^(9 - k)

\* a packed layout of k bytes (k in 2..4): 7k value bits, little-endian, the
\* first 8-k of them in the low bits of byte 0
PackedLayout(v, k) ==
    [i \in 0..k-1 |->
        IF i = 0 THEN UnaryPrefix(k) + (v[0] % (2^(8-k)))
        ELSE Shr(v, 8 * i - k)[0]]

\* the binary length-prefixed layout with m payload bytes: 0xF0 | (m - 1),
\* then the m low-order bytes of the value, little-endian
BinaryLayout(v, m) == [i \in 0..m |-> IF i = 0 THEN 240 + (m - 1) ELSE v[i-1]]

\* whether a value fits in b bits
FitsBits(v, b) ==
    \A i \in DOMAIN v :
        IF 8 * i >= b THEN v[i] = 0
        ELSE IF 8 * (i + 1) > b THEN v[i] < 2^(b - 8 * i)
        ELSE TRUE

---------------------------------------------------------------------------
(* The caller: it owns one buffer of N+1 bytes, either has an encoder fill *)
(* it or places bytes in it itself, and then has a decoder read it.        *)

\* the byte values the inputs are built from, the edges of the layouts first
ByteList == <<0, 255, 128, 127, 1, 64, 63, 32, 31, 16, 15, 2, 165, 90>>

ByteAt(i) == IF i <= Len(ByteList) THEN ByteList[i] ELSE (i * 37) % 256

NumTop == 12
NumLow == 3
NumFill == 3
NumJunk == 2
NumStore == 3

TopBytes   == {ByteAt(i) : i \in 1..NumTop}
LowBytes   == {ByteAt(i) : i \in 1..NumLow}
FillBytes  == {ByteAt(i) : i \in 1..NumFill}
JunkBytes  == {ByteAt(i) : i \in 1..NumJunk}
StoreBytes == {ByteAt(i) : i \in 1..NumStore}

Widths == {4, 8, 16}

\* the little-endian bytes s as a value of n bytes
Bytes(s, n) == [i \in 0..n-1 |-> IF i < Len(s) THEN s[i+1] ELSE 0]

\* the values of the tests and of the documentation's examples
TestValues(n) ==
    {Bytes(s, n) : s \in {<<222, 188, 10>>, <<120, 86, 52, 18>>, <<57, 48>>,
                          <<123>>, <<246>>, <<0, 0, 32, 64>>, <<64, 32>>,
                          <<1, 0, 192, 127>>, <<0, 0, 128, 255>>}}
    \cup (IF n >= 8
          THEN {Bytes(s, n) : s \in {<<255, 255, 255, 255, 1>>,
                                     <<0, 0, 0, 0, 0, 0, 240, 127>>,
                                     <<1, 0, 0, 0, 0, 0, 248, 127>>,
                                     <<1, 0, 0, 0, 0, 0, 240, 127>>,
                                     <<0, 0, 0, 0, 0, 0, 4, 64>>,
                                     <<64, 4>>}}
          ELSE {})

\* values of n bytes: a top byte t at index h, f below it, l at index 0
Shaped(n) ==
    {[i \in 0..n-1 |-> IF i > h THEN 0
                       ELSE IF i = h THEN t
                       ELSE IF i = 0 THEN l
                       ELSE f] :
        h \in 0..n-1, t \in TopBytes, f \in FillBytes, l \in LowBytes}

\* the values next to 2^35 and 2^42, where a varint of seven bits per byte
\* (VLQ, LEB128) grows by a byte and the byte-wise lengths of this format do not
SevenBitEdges(n) ==
    IF n >= 8
    THEN {Bytes(s, n) : s \in {<<255, 255, 255, 255, 7>>, <<0, 0, 0, 0, 8>>,
                               <<255, 255, 255, 255, 255, 3>>, <<0, 0, 0, 0, 0, 4>>}}
    ELSE {}

\* the unsigned arguments
Values(n) == Shaped(n) \cup TestValues(n) \cup SevenBitEdges(n)

\* the signed arguments, as two's complement bit patterns
SignedValues(n) == Values(n) \cup {Not(v) : v \in Values(n)}

\* the float arguments, as IEEE-754 bit patterns
FloatValues(n) == Values(n) \cup {swap_bytes(v) : v \in Values(n)}

\* first bytes at the edges of every layout, and every binary length prefix
PrefixBytes == {0, 127, 128, 191, 192, 223, 224, 239} \cup 240..255

\* the payloads a caller stores after such a first byte: p below index k, q at
\* index k and r above it
Stored(n) ==
    {[i \in 0..n |-> IF i = 0 THEN b0
                     ELSE IF i < k THEN p
                     ELSE IF i = k THEN q
                     ELSE r] :
        b0 \in PrefixBytes, k \in 1..n,
        p \in StoreBytes, q \in StoreBytes, r \in StoreBytes}

\* the values a caller places in a layout of its choice
PlaceValues(n) ==
    {[i \in 0..n-1 |-> IF i > h THEN 0 ELSE IF i = h THEN t ELSE f] :
        h \in 0..n-1, t \in TopBytes, f \in StoreBytes}

NoCall == [fn |-> "none", value |-> <<>>, len |-> 0]

Init ==
    /\ pc = "start"
    /\ \E n \in Widths, j \in JunkBytes : buf = [i \in 0..n |-> j]
    /\ enc = NoCall
    /\ dec = NoCall

Encoded(fn, value, r) ==
    /\ buf' = r.buf
    /\ enc' = [fn |-> fn, value |-> value, len |-> r.len]
    /\ pc' = "encoded"
    /\ UNCHANGED dec

Decoded(fn, r) ==
    /\ dec' = [fn |-> fn, value |-> r.value, len |-> r.len]
    /\ pc' = "decoded"
    /\ UNCHANGED <<buf, enc>>

\* the caller writes any first byte over what the buffer holds
StoreFirst ==
    /\ pc = "start"
    /\ \E b0 \in Byte : buf' = [buf EXCEPT ![0] = b0]
    /\ pc' = "stored"
    /\ UNCHANGED <<enc, dec>>

\* the caller fills the buffer with bytes of its own
Store ==
    /\ pc = "start"
    /\ \E s \in Stored(Size(buf) - 1) : buf' = s
    /\ pc' = "stored"
    /\ UNCHANGED <<enc, dec>>

\* the caller writes a value in a packed layout of its choice that can hold
\* it, leaving the rest of the buffer as it was
PlacePacked ==
    /\ pc = "start"
    /\ \E v \in PlaceValues(Size(buf) - 1), k \in 2..4 :
        /\ FitsBits(v, 7 * k)
        /\ buf' = WriteBack(buf, PackedLayout(v, k))
        /\ enc' = [fn |-> "place", value |-> v, len |-> k]
    /\ pc' = "stored"
    /\ UNCHANGED dec

\* the same in the binary length-prefixed layout
PlaceBinary ==
    /\ pc = "start"
    /\ \E v \in PlaceValues(Size(buf) - 1), m \in 1..(Size(buf) - 1) :
        /\ FitsBits(v, 8 * m)
        /\ buf' = WriteBack(buf, BinaryLayout(v, m))
        /\ enc' = [fn |-> "place", value |-> v, len |-> m + 1]
    /\ pc' = "stored"
    /\ UNCHANGED dec

Call_encode_u32 ==
    /\ pc = "start" /\ Size(buf) = 5
    /\ \E v \in Values(4) : Encoded("encode_u32", v, encode_u32(buf, v))

Call_encode_u64 ==
    /\ pc = "start" /\ Size(buf) = 9
    /\ \E v \in Values(8) : Encoded("encode_u64", v, encode_u64(buf, v))

Call_encode_u128 ==
    /\ pc = "start" /\ Size(buf) = 17
    /\ \E v \in Values(16) : Encoded("encode_u128", v, encode_u128(buf, v))

Call_encode_i32 ==
    /\ pc = "start" /\ Size(buf) = 5
    /\ \E v \in SignedValues(4) : Encoded("encode_i32", v, encode_i32(buf, v))

Call_encode_i64 ==
    /\ pc = "start" /\ Size(buf) = 9
    /\ \E v \in SignedValues(8) : Encoded("encode_i64", v, encode_i64(buf, v))

Call_encode_i128 ==
    /\ pc = "start" /\ Size(buf) = 17
    /\ \E v \in SignedValues(16) : Encoded("encode_i128", v, encode_i128(buf, v))

Call_encode_f32 ==
    /\ pc = "start" /\ Size(buf) = 5
    /\ \E v \in FloatValues(4) : Encoded("encode_f32", v, encode_f32(buf, v))

Call_encode_f64 ==
    /\ pc = "start" /\ Size(buf) = 9
    /\ \E v \in FloatValues(8) : Encoded("encode_f64", v, encode_f64(buf, v))

Ready == pc \in {"encoded", "stored"}

Call_decode_u32  == Ready /\ Size(buf) = 5  /\ Decoded("decode_u32", decode_u32(buf))
Call_decode_u64  == Ready /\ Size(buf) = 9  /\ Decoded("decode_u64", decode_u64(buf))
Call_decode_u128 == Ready /\ Size(buf) = 17 /\ Decoded("decode_u128", decode_u128(buf))
Call_decode_i32  == Ready /\ Size(buf) = 5  /\ Decoded("decode_i32", decode_i32(buf))
Call_decode_i64  == Ready /\ Size(buf) = 9  /\ Decoded("decode_i64", decode_i64(buf))
Call_decode_i128 == Ready /\ Size(buf) = 17 /\ Decoded("decode_i128", decode_i128(buf))
Call_decode_f32  == Ready /\ Size(buf) = 5  /\ Decoded("decode_f32", decode_f32(buf))
Call_decode_f64  == Ready /\ Size(buf) = 9  /\ Decoded("decode_f64", decode_f64(buf))

Next ==
    \/ StoreFirst
    \/ Store
    \/ PlacePacked
    \/ PlaceBinary
    \/ Call_encode_u32
    \/ Call_encode_u64
    \/ Call_encode_u128
    \/ Call_encode_i32
    \/ Call_encode_i64
    \/ Call_encode_i128
    \/ Call_encode_f32
    \/ Call_encode_f64
    \/ Call_decode_u32
    \/ Call_decode_u64
    \/ Call_decode_u128
    \/ Call_decode_i32
    \/ Call_decode_i64
    \/ Call_decode_i128
    \/ Call_decode_f32
    \/ Call_decode_f64

Spec == Init /\ [][Next]_vars

---------------------------------------------------------------------------

(* The claims.                                                             *)

\* the last call pair: encoder (or "place") efn, then decoder dfn
Pair(efn, dfn) == pc = "decoded" /\ enc.fn = efn /\ dec.fn = dfn

\* a decoder dfn has read a buffer, whoever filled it
Read(dfn) == pc = "decoded" /\ dec.fn = dfn

UnsignedDecoders == {"decode_u32", "decode_u64", "decode_u128"}

\* C1: a value written by encode_uW is read back by decode_uW as the same value
\* with the length encode_uW returned, whatever the buffer held before, and
\* that length is encoded_len of the first byte written.
C1_RoundTrip ==
    (\/ Pair("encode_u32", "decode_u32")
     \/ Pair("encode_u64", "decode_u64")
     \/ Pair("encode_u128", "decode_u128"))
        => /\ dec.value = enc.value
           /\ dec.len = enc.len
           /\ enc.len = encoded_len(buf[0])

\* C1 witness: a u64 encoded in two bytes has made the round trip through a
\* buffer that still holds 0xFF past the encoding.
C1_Witness == Pair("encode_u64", "decode_u64") /\ enc.len = 2 /\ buf[8] = 255

\* what the n+1 payload bytes after a binary length prefix 0xF0|n denote: the
\* little-endian integer they form, every higher byte zero
PayloadValue(b, n) == [i \in 0..Size(b)-2 |-> IF i <= n THEN b[i+1] ELSE 0]

\* C2: on a first byte 0xF0|n with n+1 <= W/8, decode_uW returns the integer
\* formed by the n+1 payload bytes, all higher bits zero, whatever the bytes
\* after them hold.
C2_ZeroMask ==
    (pc = "decoded" /\ dec.fn \in UnsignedDecoders
        /\ buf[0] >= 240 /\ (buf[0] - 240) + 1 <= Size(buf) - 1)
        => dec.value = PayloadValue(buf, buf[0] - 240)

\* C2 for decode_u64 and decode_u128 alone, which mask the loaded value.
C2_ZeroMask_u64_u128 ==
    (pc = "decoded" /\ dec.fn \in {"decode_u64", "decode_u128"}
        /\ buf[0] >= 240 /\ (buf[0] - 240) + 1 <= Size(buf) - 1)
        => dec.value = PayloadValue(buf, buf[0] - 240)

\* C3 as stated: the length decode_uW returns is between 1 and W/8+1, the size
\* of the buffer, for every content of the buffer.
C3_LenInsideBuffer ==
    (pc = "decoded" /\ dec.fn \in UnsignedDecoders)
        => (1 <= dec.len /\ dec.len <= Size(buf))

\* the longest encoding of the format: prefix 0xFF, 16 payload bytes
MaxEncodedLen == 17

\* C3 amended: the length decode_uW returns is between 1 and 17; it is at most
\* W/8+1 exactly when the first byte is at most 0xF0 + (W/8 - 1), and on a
\* larger first byte it is the low nibble plus two, past the buffer's end.
C3_LenBounded ==
    (pc = "decoded" /\ dec.fn \in UnsignedDecoders)
        => /\ 1 <= dec.len /\ dec.len <= MaxEncodedLen
           /\ (dec.len <= Size(buf)) <=> (buf[0] <= 240 + (Size(buf) - 2))
           /\ buf[0] > 240 + (Size(buf) - 2) => dec.len = (buf[0] - 240) + 2

\* C3 witness: decode_u32 has read a five-byte buffer and reports 17 bytes.
C3_Witness == Read("decode_u32") /\ buf[0] = 255 /\ dec.len = 17

\* C4: the length decode_uW returns is encoded_len of the first byte, whatever
\* the payload bytes hold.
C4_LengthAgreement ==
    (pc = "decoded" /\ dec.fn \in UnsignedDecoders) => dec.len = encoded_len(buf[0])

\* C4 witness: a binary length prefix followed by payload bytes that differ.
C4_Witness ==
    Read("decode_u64") /\ buf[0] = 250 /\ buf[1] # buf[8] /\ dec.len = 12

UnsignedEncoders == {"encode_u32", "encode_u64", "encode_u128"}

\* encode_uW and decode_uW for the width of the value or buffer at hand
EncodeU(b, v) ==
    CASE Size(v) = 4  -> encode_u32(b, v)
      [] Size(v) = 8  -> encode_u64(b, v)
      [] Size(v) = 16 -> encode_u128(b, v)

DecodeU(b) ==
    CASE Size(b) = 5  -> decode_u32(b)
      [] Size(b) = 9  -> decode_u64(b)
      [] Size(b) = 17 -> decode_u128(b)

\* the buffer holds a byte sequence of n bytes and nothing else: as in the
\* decode tests, every byte past the sequence is zero
ZeroTail(b, n) == \A i \in DOMAIN b : i >= n => b[i] = 0

\* C5: encode_uW never writes an over-long encoding.  Whenever decode_uW maps a
\* byte sequence of L bytes to v, encode_uW(v) returns at most L (and by C1 its
\* own output is such a sequence); it writes a binary length prefix only for
\* v >= 2^28, and then the last payload byte counted is non-zero; it writes more
\* than one byte only for v >= 2^7.
C5_NeverOverLong ==
    /\ (pc = "decoded" /\ dec.fn \in UnsignedDecoders
            /\ dec.len <= Size(buf) /\ ZeroTail(buf, dec.len))
        => EncodeU(buf, dec.value).len <= dec.len
    /\ enc.fn \in UnsignedEncoders
        => /\ buf[0] >= 240
                => /\ ~Lt(enc.value, Lit(268435456, Size(enc.value)))
                   /\ buf[enc.len - 1] # 0
           /\ enc.len > 1 => ~Lt(enc.value, Lit(128, Size(enc.value)))

\* C5 witness: decode_u64 has read a five-byte binary layout, alone in its
\* buffer, of a value that encode_u64 writes in fewer bytes.
C5_Witness ==
    /\ Read("decode_u64") /\ buf[0] = 243 /\ ZeroTail(buf, 5) /\ dec.len = 5
    /\ encode_u64(buf, dec.value).len < 5

\* C6: a value placed in any layout able to hold it, padded with zero bits, is
\* decoded as that value with that layout's length, whatever the rest of the
\* buffer holds.
C6_OverLongTolerance ==
    (\/ Pair("place", "decode_u32")
     \/ Pair("place", "decode_u64")
     \/ Pair("place", "decode_u128"))
        => (dec.value = enc.value /\ dec.len = enc.len)

\* C6 for decode_u64 and decode_u128 alone.
C6_OverLongTolerance_u64_u128 ==
    (Pair("place", "decode_u64") \/ Pair("place", "decode_u128"))
        => (dec.value = enc.value /\ dec.len = enc.len)

\* C6 for decode_u32 when every byte past the layout is zero.
C6_OverLongTolerance_u32_ZeroTail ==
    (Pair("place", "decode_u32") /\ ZeroTail(buf, enc.len))
        => (dec.value = enc.value /\ dec.len = enc.len)

\* the signed codec of a width, by the size of the value or buffer at hand
EncodeI(b, v) ==
    CASE Size(v) = 4  -> encode_i32(b, v)
      [] Size(v) = 8  -> encode_i64(b, v)
      [] Size(v) = 16 -> encode_i128(b, v)

SignedEncoders == {"encode_i32", "encode_i64", "encode_i128"}
SignedDecoders == {"decode_i32", "decode_i64", "decode_i128"}

\* the least signed value of n bytes, -2^(8n-1)
MinSigned(n) == [i \in 0..n-1 |-> IF i = n - 1 THEN 128 ELSE 0]

\* C7: a signed value written by encode_iW is read back by decode_iW as the
\* same value with the length encode_iW returned, and the two transforms are
\* inverse to each other in both directions: unzigzag(zigzag(v)) = v for the
\* value written, zigzag(unzigzag(z)) = z for every unsigned z a buffer decodes to.
C7_SignedRoundTrip ==
    /\ (\/ Pair("encode_i32", "decode_i32")
        \/ Pair("encode_i64", "decode_i64")
        \/ Pair("encode_i128", "decode_i128"))
        => (dec.value = enc.value /\ dec.len = enc.len)
    /\ enc.fn \in SignedEncoders => unzigzag(zigzag(enc.value)) = enc.value
    /\ (pc = "decoded" /\ dec.fn \in SignedDecoders)
        => /\ zigzag(dec.value) = DecodeU(buf).value
           /\ DecodeU(EncodeI(buf, dec.value).buf).value = DecodeU(buf).value

\* C7 witness: the least i64 has made the round trip.
C7_Witness == Pair("encode_i64", "decode_i64") /\ enc.value = MinSigned(8)

\* the zigzag code of a signed value by arithmetic: 2v for v >= 0, and the z
\* with z + 2v + 1 = 0 (mod 2^W), which is -2v - 1, for v < 0
ZigZagCode(v) ==
    IF IsNeg(v) THEN Neg(Add(Add(v, v), Lit(1, Size(v)))) ELSE Add(v, v)

\* C8: encode_iW(v) writes the bytes and returns the length of encode_uW(z)
\* for z = 2v (v >= 0) or z = -2v - 1 (v < 0): 0, -1, 1, -2, 2 go to 0, 1, 2,
\* 3, 4, and the least value -2^(W-1) goes to 2^W - 1 without overflow.
C8_ZigZag ==
    enc.fn \in SignedEncoders
        => LET n == Size(enc.value)
               r == EncodeU([i \in DOMAIN buf |-> 0], ZigZagCode(enc.value))
           IN  /\ r.len = enc.len
               /\ \A i \in 0..enc.len-1 : r.buf[i] = buf[i]
               /\ enc.value = Lit(0, n) => (enc.len = 1 /\ buf[0] = 0)
               /\ enc.value = MaxWord(n) => (enc.len = 1 /\ buf[0] = 1)
               /\ enc.value = Lit(1, n) => (enc.len = 1 /\ buf[0] = 2)
               /\ enc.value = Not(Lit(1, n)) => (enc.len = 1 /\ buf[0] = 3)
               /\ enc.value = Lit(2, n) => (enc.len = 1 /\ buf[0] = 4)
               /\ enc.value = MinSigned(n)
                    => /\ enc.len = n + 1
                       /\ \A i \in 1..n : buf[i] = 255

\* C8 witness: encode_i32 has written the least i32.
C8_Witness == enc.fn = "encode_i32" /\ enc.value = MinSigned(4) /\ buf[0] = 243

\* the bytes of a bit pattern in the opposite order
Reversed(p) == [i \in DOMAIN p |-> p[Size(p) - 1 - i]]

\* C9: encode_fW writes what encode_uW writes for the byte-swapped bit
\* pattern, and decode_fW reads the buffer back as the bit pattern written,
\* with the same length, for every pattern (NaNs, infinities, both zeros).
C9_FloatBitExact ==
    /\ enc.fn \in {"encode_f32", "encode_f64"}
        => LET r == EncodeU([i \in DOMAIN buf |-> 0], Reversed(enc.value))
           IN  /\ r.len = enc.len
               /\ \A i \in 0..enc.len-1 : r.buf[i] = buf[i]
    /\ (Pair("encode_f32", "decode_f32") \/ Pair("encode_f64", "decode_f64"))
        => (dec.value = enc.value /\ dec.len = enc.len)

\* C9 witness: the signalling NaN 0x7FF0000000000001 has made the round trip
\* as an f64.
C9_Witness ==
    /\ Pair("encode_f64", "decode_f64")
    /\ enc.value = Bytes(<<1, 0, 0, 0, 0, 0, 240, 127>>, 8)

\* C10: for v < 2^32 the three encoders, and for v < 2^64 encode_u64 and
\* encode_u128, return the same length and write the same bytes below it.
C10_WidthIndependent ==
    enc.fn \in {"encode_u64", "encode_u128"}
        => \A m \in {4, 8} :
            (m < Size(enc.value) /\ Cast(Cast(enc.value, m), Size(enc.value)) = enc.value)
                => LET r == EncodeU([i \in 0..m |-> 0], Cast(enc.value, m))
                   IN  /\ r.len = enc.len
                       /\ \A i \in 0..enc.len-1 : r.buf[i] = buf[i]

\* C10 witness: encode_u128 has written a value of [2^28, 2^32), where it does
\* not delegate to encode_u32.
C10_Witness == enc.fn = "encode_u128" /\ buf[0] = 243 /\ enc.len = 5

---------------------------------------------------------------------------
(* Lengths: how the length an encoder returns depends on the value.        *)

\* the number of bits of an unsigned value: the position of its highest one
\* bit, counted from one; zero has none
BitLength(v) ==
    LET nz == {i \in DOMAIN v : v[i] # 0}
    IN  IF nz = {} THEN 0
        ELSE LET h == CHOOSE i \in nz : \A j \in nz : j <= i
             IN  8 * h + (CHOOSE k \in 1..8 : 2^(k-1) <= v[h] /\ v[h] < 2^k)

IntegerEncoders == UnsignedEncoders \cup SignedEncoders

\* the unsigned value an integer encoder writes: the value itself, or the
\* zigzag code of a signed value
EncodedCode == IF enc.fn \in SignedEncoders THEN ZigZagCode(enc.value) ELSE enc.value

\* the exponents k of the breakpoints 2^k of a width of n bytes: the packed
\* layouts gain 7 bits per byte; "every 2^8 thereafter" puts the next ones a
\* factor 2^8 apart from 2^28 on, the binary layout puts them at whole bytes
PackedBreaks == {7, 14, 21, 28}

BreaksFrom28(n) == PackedBreaks \cup {k \in {28 + 8 * j : j \in 1..n} : k < 8 * n}

BreaksAtBytes(n) == PackedBreaks \cup {8 * j : j \in 4..n-1}

\* the step function that starts at one byte and grows by one byte at each
\* breakpoint 2^k: v >= 2^k exactly when v has more than k bits
StepLen(v, breaks) == 1 + Cardinality({k \in breaks : BitLength(v) > k})

\* the length of the successor of the value written; the greatest value has none
SuccLen ==
    LET v == EncodedCode
    IN  EncodeU([i \in DOMAIN buf |-> 0], Add(v, Lit(1, Size(v)))).len

\* C11 as stated: the length encode_uW returns (encode_iW: for the zigzag code)
\* is the step function of the value with breakpoints at 2^7, 2^14, 2^21, 2^28
\* and then every factor 2^8 from there (2^36, 2^44, ...).  It fails: the code
\* returns 6 for 2^32, which lies between 2^28 and 2^36.
C11_BreakpointsEvery8From28 ==
    enc.fn \in IntegerEncoders
        => enc.len = StepLen(EncodedCode, BreaksFrom28(Size(enc.value)))

\* C11: the length encode_uW returns (encode_iW: for the zigzag code of the
\* value) is a non-decreasing step function of the value: one byte below 2^7,
\* one more at each of 2^7, 2^14, 2^21, 2^28 and at each 2^(8j) from 2^32 up
\* to the width, constant in between.  The successor of a value is as long as
\* the value, or one byte longer exactly when it is a breakpoint.
C11_MonotonicCompactness ==
    enc.fn \in IntegerEncoders
        => LET v == EncodedCode
               n == Size(enc.value)
           IN  /\ enc.len = StepLen(v, BreaksAtBytes(n))
               /\ v # MaxWord(n)
                   => SuccLen = enc.len
                        + (IF \E k \in BreaksAtBytes(n) :
                                 /\ BitLength(v) = k
                                 /\ BitLength(Add(v, Lit(1, n))) = k + 1
                           THEN 1 ELSE 0)

\* C11 witness: encode_u64 has written 2^32 - 1 in 5 bytes, and its successor,
\* the breakpoint 2^32, takes 6.
C11_Witness ==
    /\ enc.fn = "encode_u64" /\ enc.value = Bytes(<<255, 255, 255, 255>>, 8)
    /\ enc.len = 5 /\ SuccLen = 6

\* the length of the LEB128 / VLQ encoding of an unsigned value: seven value
\* bits per byte, and one byte for zero
Leb128Len(v) == IF BitLength(v) = 0 THEN 1 ELSE (BitLength(v) + 6) \div 7

\* the bit lengths at which a payload of whole bytes behind a prefix byte is
\* one byte longer than seven bits per byte: [2^32, 2^35), [2^40, 2^42),
\* [2^48, 2^49)
BehindLeb128 == {33, 34, 35, 41, 42, 49}

---------------------------------------------------------------------------
(* Canonical encodings: the bytes an encoder writes among all the byte     *)
(* sequences a decoder maps to the same value.                             *)

\* decode_uW has read a byte sequence: the first dec.len bytes of the buffer,
\* whatever follows them; decode_u32 takes the bytes that follow into the
\* value (C2), so for it the sequence is followed by zeros
SequenceDecoded ==
    /\ pc = "decoded" /\ dec.fn \in UnsignedDecoders
    /\ dec.len <= Size(buf)
    /\ dec.fn = "decode_u32" => ZeroTail(buf, dec.len)

\* what encode_uW writes for the value that was read
Canonical == EncodeU([i \in DOMAIN buf |-> 0], dec.value)

\* the sequence that was read is the one encode_uW writes for its value
ReadCanonical ==
    /\ Canonical.len = dec.len
    /\ \A i \in 0..dec.len-1 : Canonical.buf[i] = buf[i]

---------------------------------------------------------------------------
(* Layouts: the bytes an unsigned encoder writes, against the layouts of   *)
(* the module documentation.                                               *)

\* the least k of 2, 3, 4 with v < 2^(7k), for 2^7 <= v < 2^28
PackedBytes(v) ==
    CHOOSE k \in 2..4 : FitsBits(v, 7 * k) /\ ~FitsBits(v, 7 * (k - 1))

\* the value the bytes after byte 0 of a packed layout of k bytes hold,
\* little-endian
PackedHigh(b, k, n) == [i \in 0..n-1 |-> IF i < k - 1 THEN b[i+1] ELSE 0]

\* C14: for every width and every v < 2^28, encode_uW writes [v] and returns 1
\* when v < 2^7; otherwise, with k the least of 2, 3, 4 with v < 2^(7k), it
\* returns k, byte 0 is k-1 one bits, a zero bit and the low 8-k bits of v, and
\* bytes 1..k-1 are the bytes of v >> (8-k), least significant first; the
\* bytes hold every bit of v.  0xABCDE gives [0xDE, 0xE6, 0x55] and 0x80 gives
\* [0x80, 0x02].
C14_DirectAndPacked ==
    (enc.fn \in UnsignedEncoders /\ FitsBits(enc.value, 28))
        => LET v == enc.value
               n == Size(v)
           IN  /\ FitsBits(v, 7) => (enc.len = 1 /\ buf[0] = v[0])
               /\ ~FitsBits(v, 7)
                   => LET k == PackedBytes(v) IN
                      /\ enc.len = k
                      /\ buf[0] = UnaryPrefix(k) + (v[0] % 2^(8 - k))
                      /\ \A i \in 1..k-1 : buf[i] = Shr(v, 8 - k)[i-1]
                      /\ v = Or(Shl(PackedHigh(buf, k, n), 8 - k),
                                FromByte(buf[0] % 2^(8 - k), n))
               /\ v = Bytes(<<222, 188, 10>>, n)
                   => (enc.len = 3 /\ buf[0] = 222 /\ buf[1] = 230 /\ buf[2] = 85)
               /\ v = Lit(128, n)
                   => (enc.len = 2 /\ buf[0] = 128 /\ buf[1] = 2)

\* C14 witness: encode_u32 has written 0xABCDE in the packed layout of three
\* bytes.
C14_Witness ==
    /\ enc.fn = "encode_u32" /\ enc.value = Bytes(<<222, 188, 10>>, 4)
    /\ enc.len = 3 /\ buf[0] = 222

\* the number of bytes up to the highest non-zero byte of a value:
\* ceil(bit_length / 8)
PayloadBytes(v) == (BitLength(v) + 7) \div 8

\* C15: for every width W and every v >= 2^28, encode_uW writes byte 0 =
\* 0xF0 | (n - 1), n = ceil(bit_length(v) / 8) being the number of bytes up to
\* the highest non-zero byte of v (4 <= n <= W/8), writes the n low-order bytes
\* of v, least significant first, at buf[1..=n], and returns n + 1.
\* encode_u64(0x1_FFFFFFFF) gives [0xF4, 0xFF, 0xFF, 0xFF, 0xFF, 0x01] and 6;
\* encode_u32 always gives the prefix 0xF3 and 5.
C15_BinaryLengthPrefixed ==
    (enc.fn \in UnsignedEncoders /\ ~FitsBits(enc.value, 28))
        => LET v == enc.value
               n == PayloadBytes(v)
           IN  /\ 4 <= n /\ n <= Size(v)
               /\ v[n-1] # 0 /\ \A i \in DOMAIN v : i >= n => v[i] = 0
               /\ buf[0] = 240 + (n - 1)
               /\ \A i \in 1..n : buf[i] = v[i-1]
               /\ enc.len = n + 1
               /\ v = Bytes(<<255, 255, 255, 255, 1>>, 8)
                   => /\ enc.len = 6
                      /\ \A i \in 0..5 : buf[i] = <<244, 255, 255, 255, 255, 1>>[i+1]
               /\ enc.fn = "encode_u32" => (buf[0] = 243 /\ enc.len = 5)

\* C15 witness: encode_u64 has written 0x1_FFFFFFFF behind the prefix 0xF4.
C15_Witness ==
    /\ enc.fn = "encode_u64" /\ enc.value = Bytes(<<255, 255, 255, 255, 1>>, 8)
    /\ buf[0] = 244 /\ enc.len = 6

===========================================================================
